---- MODULE Spec2Model ----
(***************************************************************************)
(* Model of torchgeo/datasets/landsat.py: the Landsat dataset builds a     *)
(* three-dimensional (x, y, time) R-tree from the raster files of a        *)
(* directory (Landsat.__init__) and answers bounding-box queries           *)
(* (Landsat.__getitem__).                                                  *)
(*                                                                         *)
(* A file name is the sequence of the code points of its characters.  A    *)
(* bounding box is the tuple <<minx, maxx, miny, maxy, mint, maxt>>; the   *)
(* bounds of a raster are the tuple <<minx, miny, maxx, maxy>> (rasterio's *)
(* order).  The local time zone of the process, which decides             *)
(* datetime.timestamp(), is a zone of one fixed offset from UTC, any of    *)
(* Offsets.  Timestamps are integers of 32 bits, so that the dates of the  *)
(* file names lie between 1902 and 2037, or are 0001-01-01.                *)
(***************************************************************************)
EXTENDS Integers, Sequences, FiniteSets, TLC

VARIABLES
    listing,     \* files glob.iglob has still to produce, in its order
    done,        \* files whose record the build has inserted (history)
    index,       \* self.index: the entries of the R-tree, in insertion order
    pc,          \* position of the program
    cur,         \* the file of the current loop iteration
    timestamp,   \* local variable timestamp of __init__
    handles,     \* raster files currently open
    buildError,  \* exception that left __init__, "" if none
    utcoffset,   \* seconds the local time zone of the process is east of UTC
    query,       \* argument of the last __getitem__ call
    window,      \* local variable window of __getitem__
    hits,        \* local variable hits of __getitem__
    filename,    \* local variable filename of __getitem__
    idxQueried,  \* the last call ran index.intersection
    opens,       \* rasterio.open calls made by the last call
    outcome,     \* how the last call ended: "" while running or before any
    result,      \* the sample returned by the last successful call
    prev         \* file the call before the last one read, if it succeeded

vars == <<listing, done, index, pc, cur, timestamp, handles, buildError, utcoffset,
          query, window, hits, filename, idxQueried, opens, outcome, result,
          prev>>

buildVars == <<listing, done, index, cur, timestamp, buildError, utcoffset>>
queryVars == <<query, window, hits, filename, idxQueried, opens, outcome,
               result, prev>>

----------------------------------------------------------------------------
(* Bounds of the model *)

MaxFiles == 3      \* longest directory listing
MaxInserts == 2    \* insertions of the index-only specification

----------------------------------------------------------------------------
(* Strings as sequences of code points *)

\* ord(c) of the ASCII characters the file names are written with
Ord(c) ==
    CASE c = " " -> 32 [] c = "." -> 46 [] c = "/" -> 47 [] c = "_" -> 95
      [] c = "0" -> 48 [] c = "1" -> 49 [] c = "2" -> 50 [] c = "3" -> 51
      [] c = "4" -> 52 [] c = "5" -> 53 [] c = "6" -> 54 [] c = "7" -> 55
      [] c = "8" -> 56 [] c = "9" -> 57
      [] c = "A" -> 65 [] c = "B" -> 66 [] c = "C" -> 67 [] c = "F" -> 70
      [] c = "I" -> 73 [] c = "L" -> 76 [] c = "T" -> 84
      [] c = "d" -> 100 [] c = "x" -> 120

\* the code points of a string given by its characters
Codes(s) == [i \in 1..Len(s) |-> Ord(s[i])]

\* the code points of the digit zero of every Unicode decimal digit system
\* (category Nd, Unicode 14); the digits 1 to 9 of a system follow its zero
DigitZeros ==
    {48, 1632, 1776, 1984, 2406, 2534, 2662, 2790, 2918, 3046, 3174, 3302,
     3430, 3558, 3664, 3792, 3872, 4160, 4240, 6112, 6160, 6470, 6608,
     6784, 6800, 6992, 7088, 7232, 7248, 42528, 43216, 43264, 43472, 43504,
     43600, 44016, 65296, 66720, 68912, 69734, 69872, 69942, 70096, 70384,
     70736, 70864, 71248, 71360, 71472, 71904, 72016, 72784, 73040, 73120,
     92768, 92864, 93008, 120782, 120792, 120802, 120812, 120822, 123200,
     123632, 125264, 130032}

\* the character is a decimal digit: \d of a str pattern
IsDecimal(c) == \E z \in DigitZeros : c >= z /\ c <= z + 9

\* the value int() gives the decimal digit
DigitVal(c) == c - (CHOOSE z \in DigitZeros : c >= z /\ c <= z + 9)

\* the character is one of the ASCII digits lo to hi: [lo-hi]
InRange(c, lo, hi) == c >= Ord("0") + lo /\ c <= Ord("0") + hi

\* s[from..to], empty when the range is empty or leaves the string
Slice(s, from, to) ==
    IF from > to \/ to > Len(s) THEN <<>> ELSE SubSeq(s, from, to)

RECURSIVE LastSlash(_, _)
\* position of the last "/" in s[1..i], 0 if there is none
LastSlash(s, i) ==
    IF i = 0 THEN 0
    ELSE IF s[i] = Ord("/") THEN i ELSE LastSlash(s, i - 1)

\* os.path.basename
Basename(s) == Slice(s, LastSlash(s, Len(s)) + 1, Len(s))

RECURSIVE SplitFrom(_, _, _)
\* the tokens of s[i..] given the token tok read so far
SplitFrom(s, i, tok) ==
    IF i > Len(s) THEN <<tok>>
    ELSE IF s[i] = Ord("_") THEN <<tok>> \o SplitFrom(s, i + 1, <<>>)
    ELSE SplitFrom(s, i + 1, Append(tok, s[i]))

\* str.split("_")
Split(s) == SplitFrom(s, 1, <<>>)

----------------------------------------------------------------------------
(* datetime.strptime(token, "%Y%m%d") and datetime.timestamp() *)

\* \d* matches the whole string
AllDigits(s) == \A i \in 1..Len(s) : IsDecimal(s[i])

\* the regular expression of %m: 1[0-2]|0[1-9]|[1-9]
MatchMonth(s) ==
    \/ Len(s) = 2 /\ s[1] = Ord("1") /\ InRange(s[2], 0, 2)
    \/ Len(s) = 2 /\ s[1] = Ord("0") /\ InRange(s[2], 1, 9)
    \/ Len(s) = 1 /\ InRange(s[1], 1, 9)

\* the regular expression of %d: 3[0-1]|[1-2]\d|0[1-9]|[1-9]| [1-9]
MatchDay(s) ==
    \/ Len(s) = 2 /\ s[1] = Ord("3") /\ InRange(s[2], 0, 1)
    \/ Len(s) = 2 /\ InRange(s[1], 1, 2) /\ IsDecimal(s[2])
    \/ Len(s) = 2 /\ s[1] \in {Ord("0"), Ord(" ")} /\ InRange(s[2], 1, 9)
    \/ Len(s) = 1 /\ InRange(s[1], 1, 9)

RECURSIVE ToInt(_)
\* int() of a matched field: decimal digits after an optional space
ToInt(s) ==
    IF s = <<>> THEN 0
    ELSE IF s[Len(s)] = Ord(" ") THEN 0
    ELSE 10 * ToInt(SubSeq(s, 1, Len(s) - 1)) + DigitVal(s[Len(s)])

\* widths <<month, day>> in the order the regular expression tries them
FieldWidths == << <<2, 2>>, <<2, 1>>, <<1, 2>>, <<1, 1>> >>

FieldsMatch(tok, w) ==
    /\ MatchMonth(Slice(tok, 5, 4 + w[1]))
    /\ MatchDay(Slice(tok, 5 + w[1], 4 + w[1] + w[2]))

IsLeap(y) == y % 4 = 0 /\ (y % 100 # 0 \/ y % 400 = 0)

DaysInMonth(y, m) ==
    IF m = 2 THEN (IF IsLeap(y) THEN 29 ELSE 28)
    ELSE IF m \in {4, 6, 9, 11} THEN 30 ELSE 31

\* the date a token parses to; ok is FALSE where strptime raises ValueError
Strptime(tok) ==
    LET bad == [ok |-> FALSE, year |-> 0, month |-> 0, day |-> 0]
        cands == {k \in 1..Len(FieldWidths) : FieldsMatch(tok, FieldWidths[k])}
    IN  IF Len(tok) < 4 \/ ~AllDigits(Slice(tok, 1, 4)) \/ cands = {}
        THEN bad
        ELSE LET k == CHOOSE c \in cands : \A o \in cands : c <= o
                 w == FieldWidths[k]
                 y == ToInt(Slice(tok, 1, 4))
                 m == ToInt(Slice(tok, 5, 4 + w[1]))
                 d == ToInt(Slice(tok, 5 + w[1], 4 + w[1] + w[2]))
             IN  IF 4 + w[1] + w[2] # Len(tok) THEN bad
                 ELSE IF y < 1 \/ d > DaysInMonth(y, m) THEN bad
                 ELSE [ok |-> TRUE, year |-> y, month |-> m, day |-> d]

RECURSIVE DaysBeforeMonth(_, _)
DaysBeforeMonth(y, m) ==
    IF m = 1 THEN 0 ELSE DaysBeforeMonth(y, m - 1) + DaysInMonth(y, m - 1)

DaysBeforeYear(y) ==
    (y - 1) * 365 + (y - 1) \div 4 - (y - 1) \div 100 + (y - 1) \div 400

\* proleptic Gregorian ordinal of a date, 1 for 0001-01-01
Ordinal(y, m, d) == DaysBeforeYear(y) + DaysBeforeMonth(y, m) + d

SecondsPerDay == 24 * 60 * 60

\* datetime.timestamp() of midnight of the date raises ValueError for
\* 0001-01-01: its search for the UTC time looks one day back, into year 0
TimestampError(date) ==
    IF date.year = 1 /\ date.month = 1 /\ date.day = 1 THEN "ValueError" ELSE ""

\* datetime.timestamp() of midnight of the date, local time: seconds since
\* 1970-01-01 UTC, in a zone off seconds east of UTC
Timestamp(date, off) ==
    (Ordinal(date.year, date.month, date.day) - Ordinal(1970, 1, 1))
        * SecondsPerDay - off

\* what line 64 does with a file name: "IndexError" when the name has no
\* token 3, "ValueError" when the token is not a date, "" otherwise
ParseError(name) ==
    LET toks == Split(Basename(name))
    IN  IF Len(toks) < 4 THEN "IndexError"
        ELSE IF ~Strptime(toks[4]).ok THEN "ValueError"
        ELSE ""

\* the date line 64 computes for a name it can parse
FileDate(name) == Strptime(Split(Basename(name))[4])

\* the timestamp lines 64-65 compute for a name with a date that has one
FileTimestamp(name, off) == Timestamp(FileDate(name), off)

----------------------------------------------------------------------------
(* The R-tree (rtree.index.Index with dimension=3, interleaved=False) *)

\* the coordinate of an empty tree's bounds: larger than any coordinate
Huge == (2^30 - 1) + 2^30

\* line 68: rasterio's <<minx, miny, maxx, maxy>> and the timestamp, in the
\* order of a non-interleaved index
CoordsInterleaved(b, ts) == <<b[1], b[2], b[3], b[4], ts, ts>>
Coords(b, ts) == <<b[1], b[3], b[2], b[4], ts, ts>>

\* the index accepts coordinates whose minima do not exceed their maxima;
\* insert and intersection raise RTreeError on any other
CoordsValid(c) == c[1] <= c[2] /\ c[3] <= c[4] /\ c[5] <= c[6]

\* Index.insert(id, coords, obj): ids need not be unique
IndexInsertById(idx, id, coords, obj) ==
    LET e == [id |-> id, coords |-> coords, obj |-> obj]
    IN  IF \E i \in 1..Len(idx) : idx[i].id = id
        THEN [i \in 1..Len(idx) |-> IF idx[i].id = id THEN e ELSE idx[i]]
        ELSE Append(idx, e)
IndexInsert(idx, id, coords, obj) ==
    Append(idx, [id |-> id, coords |-> coords, obj |-> obj])

\* two boxes overlap on all three axes; the intervals are closed
OverlapsOpen(a, b) ==
    /\ a[1] < b[2] /\ a[2] > b[1]
    /\ a[3] < b[4] /\ a[4] > b[3]
    /\ a[5] < b[6] /\ a[6] > b[5]
Overlaps(a, b) ==
    /\ a[1] <= b[2] /\ a[2] >= b[1]
    /\ a[3] <= b[4] /\ a[4] >= b[3]
    /\ a[5] <= b[6] /\ a[6] >= b[5]

RECURSIVE Intersection(_, _)
\* Index.intersection(q, objects=True): the entries that overlap q, in the
\* order a single leaf node keeps them (the order of insertion)
Intersection(idx, q) ==
    IF idx = <<>> THEN <<>>
    ELSE IF Overlaps(Head(idx).coords, q)
         THEN <<Head(idx)>> \o Intersection(Tail(idx), q)
         ELSE Intersection(Tail(idx), q)

Min(a, b) == IF a <= b THEN a ELSE b
Max(a, b) == IF a >= b THEN a ELSE b

RECURSIVE IndexBounds(_)
\* Index.bounds: the minimum bounding region of all entries; an empty tree
\* reports an inverted region
IndexBounds(idx) ==
    IF idx = <<>> THEN <<Huge, -Huge, Huge, -Huge, Huge, -Huge>>
    ELSE LET c == Head(idx).coords
             r == IndexBounds(Tail(idx))
         IN  <<Min(c[1], r[1]), Max(c[2], r[2]), Min(c[3], r[3]),
               Max(c[4], r[4]), Min(c[5], r[5]), Max(c[6], r[6])>>

----------------------------------------------------------------------------
(* GeoDataset.bounds and BoundingBox.intersects *)

\* self.bounds: the bounds of the index as a BoundingBox
Bounds(idx) == IndexBounds(idx)

\* query.intersects(other)
Intersects(q, b) ==
    /\ q[1] <= b[2] /\ q[2] >= b[1]
    /\ q[3] <= b[4] /\ q[4] >= b[3]
    /\ q[5] <= b[6] /\ q[6] >= b[5]

----------------------------------------------------------------------------
(* __getitem__'s local computations *)

\* lines 88-90: Window(col_off, row_off, width, height)
WindowInterleaved(q) == <<q[1], q[2], q[3] - q[1], q[4] - q[2]>>
Window(q) == <<q[1], q[3], q[2] - q[1], q[4] - q[3]>>

\* line 92: next(hits)
LastHit(h) == h[Len(h)]
FirstHit(h) == Head(h)

\* lines 94-98: band 1 of the file over the window, as int32
Sample(name, w) == [file |-> name, window |-> w, dtype |-> "int32"]

----------------------------------------------------------------------------
(* Inputs *)

Dir == Codes(<<"d", "_", "8", "/">>)
Band == Codes(<<"_", "B", "1", ".", "T", "I", "F">>)
Scene7 == Codes(<<"L", "_", "T", "_", "7", "_">>)
Scene8 == Codes(<<"L", "_", "T", "_", "8", "_">>)
Jan1 == Codes(<<"2", "0", "2", "0", "0", "1", "0", "1">>)
Jan2 == Codes(<<"2", "0", "2", "0", "0", "1", "0", "2">>)
Feb30 == Codes(<<"2", "0", "2", "0", "0", "2", "3", "0">>)
Year1 == Codes(<<"0", "0", "0", "1", "0", "1", "0", "1">>)
\* 2020-01-01 with the year in Arabic-Indic digits
Jan1Arabic == <<1634, 1632, 1634, 1632>> \o Codes(<<"0", "1", "0", "1">>)

GoodNames == {Dir \o Scene7 \o Jan1 \o Band,
              Dir \o Scene8 \o Jan1Arabic \o Band,
              Dir \o Scene7 \o Jan2 \o Band}
\* a name with no token 3, and a name whose token 3 is not a date
BadNames == {Dir \o Codes(<<"L">>) \o Band,
             Dir \o Scene7 \o Feb30 \o Band}
\* a name whose date has no timestamp
EarlyNames == {Dir \o Scene7 \o Year1 \o Band}
Names == GoodNames \cup BadNames \cup EarlyNames

\* bounds of the rasters, <<minx, miny, maxx, maxy>>; the last has miny > maxy
RasterBounds == {<<0, 0, 100, 100>>, <<50, 50, 150, 150>>,
                 <<200, 0, 300, 100>>, <<0, 100, 100, 0>>}

\* the raster of a file whose name stops the build is never opened
Files ==
    [name : GoodNames, bounds : RasterBounds]
        \cup [name : BadNames \cup EarlyNames, bounds : {<<0, 0, 100, 100>>}]

\* offsets of the local time zone: UTC, New York and Tokyo in winter
Offsets == {0, -(5 * 3600), 9 * 3600}

Listings ==
    {s \in UNION {[1..n -> Files] : n \in 0..MaxFiles} :
        \A i, j \in 1..Len(s) : i # j => s[i].name # s[j].name}

\* midnight UTC of 2020-01-01 and of 2020-01-02
T1 == FileTimestamp(Dir \o Scene7 \o Jan1 \o Band, 0)
T2 == FileTimestamp(Dir \o Scene7 \o Jan2 \o Band, 0)

\* the spatial part <<minx, maxx, miny, maxy>> of the queries: inside one
\* tile, inside two, inside the bounds but in no tile, outside on x, outside
\* on y, and one with minx > maxx
QXY == {<<10, 20, 10, 20>>, <<10, 30, 20, 40>>, <<60, 70, 60, 70>>,
        <<110, 120, 10, 20>>, <<400, 500, 10, 20>>, <<10, 20, 400, 500>>,
        <<30, 10, 10, 20>>}
QT == {<<T1, T1>>, <<T1, T2>>, <<T1 + 3600, T1 + 7200>>, <<T2 + 1, T2 + 2>>}
QTIdx == {<<1000, 1000>>, <<1500, 1500>>, <<1000, 2000>>, <<3000, 3000>>}

Queries == {<<s[1], s[2], s[3], s[4], t[1], t[2]>> : s \in QXY, t \in QT}
QueriesIdx == {<<s[1], s[2], s[3], s[4], t[1], t[2]>> : s \in QXY, t \in QTIdx}

\* the tiles of the index-only specification
TileA == [coords |-> <<0, 100, 0, 100, 1000, 1000>>, obj |-> Codes(<<"A">>)]
TileB == [coords |-> <<50, 150, 50, 150, 2000, 2000>>, obj |-> Codes(<<"B">>)]
TileC == [coords |-> <<200, 300, 0, 100, 1000, 1000>>, obj |-> Codes(<<"C">>)]
IdxTiles == {TileA, TileB, TileC}

NoFile == [name |-> <<>>, bounds |-> <<0, 0, 0, 0>>]
NoWindow == <<>>
NoName == <<>>
NoResult == [file |-> <<>>, window |-> <<>>, dtype |-> ""]
NoQuery == <<>>

----------------------------------------------------------------------------
(* Landsat.__init__ *)

Init ==
    /\ listing \in Listings
    /\ utcoffset \in Offsets
    /\ done = <<>>
    /\ index = <<>>
    /\ pc = "scan"
    /\ cur = NoFile
    /\ timestamp = 0
    /\ handles = {}
    /\ buildError = ""
    /\ query = NoQuery
    /\ window = NoWindow
    /\ hits = <<>>
    /\ filename = NoName
    /\ idxQueried = FALSE
    /\ opens = 0
    /\ outcome = ""
    /\ result = NoResult
    /\ prev = NoName

\* lines 61-66: the loop takes the next file name, parses its date, takes
\* the timestamp and opens the raster; an exception of strptime, of timestamp
\* or of rasterio.open leaves __init__
BuildNext ==
    /\ pc = "scan"
    /\ listing # <<>>
    /\ LET f == Head(listing)
           err == ParseError(f.name)
       IN  /\ listing' = Tail(listing)
           /\ cur' = f
           /\ IF err # ""
              THEN /\ pc' = "aborted"
                   /\ buildError' = err
                   /\ UNCHANGED <<timestamp, handles>>
              ELSE IF TimestampError(FileDate(f.name)) # ""
              THEN /\ pc' = "aborted"
                   /\ buildError' = TimestampError(FileDate(f.name))
                   /\ UNCHANGED <<timestamp, handles>>
              ELSE /\ timestamp' = FileTimestamp(f.name, utcoffset)
                   /\ \E ok \in BOOLEAN :
                        IF ok
                        THEN /\ handles' = handles \cup {f.name}
                             /\ pc' = "b_opened"
                             /\ UNCHANGED buildError
                        ELSE /\ pc' = "aborted"
                             /\ buildError' = "RasterioIOError"
                             /\ UNCHANGED handles
    /\ UNCHANGED <<done, index, utcoffset>>
    /\ UNCHANGED queryVars

\* lines 67-69 and the end of the with block: the bounds are read, the record
\* is inserted under id 0 and the raster is closed, also when insert raises
BuildInsert ==
    /\ pc = "b_opened"
    /\ LET coords == Coords(cur.bounds, timestamp)
       IN  IF CoordsValid(coords)
           THEN /\ index' = IndexInsert(index, 0, coords, cur.name)
                /\ done' = Append(done, cur)
                /\ pc' = "scan"
                /\ UNCHANGED buildError
           ELSE /\ pc' = "aborted"
                /\ buildError' = "RTreeError"
                /\ UNCHANGED <<index, done>>
    /\ handles' = handles \ {cur.name}
    /\ UNCHANGED <<listing, cur, timestamp, utcoffset>>
    /\ UNCHANGED queryVars

\* line 61: the listing is exhausted and __init__ returns; its locals end
BuildDone ==
    /\ pc = "scan"
    /\ listing = <<>>
    /\ pc' = "ready"
    /\ cur' = NoFile
    /\ timestamp' = 0
    /\ UNCHANGED <<listing, done, index, handles, buildError, utcoffset>>
    /\ UNCHANGED queryVars

----------------------------------------------------------------------------
(* Landsat.__getitem__ *)

GetitemBeginUnchecked(q) ==
    /\ pc = "ready"
    /\ query' = q
    /\ prev' = IF outcome = "ok" THEN filename ELSE NoName
    /\ opens' = 0
    /\ result' = NoResult
    /\ IF FALSE
       THEN /\ outcome' = "IndexError"
            /\ window' = NoWindow
            /\ idxQueried' = FALSE
            /\ hits' = <<>>
            /\ filename' = NoName
            /\ pc' = "ready"
       ELSE /\ window' = Window(q)
            /\ idxQueried' = TRUE
            /\ hits' = IF CoordsValid(q) THEN Intersection(index, q) ELSE <<>>
            /\ IF ~CoordsValid(q)
               THEN outcome' = "RTreeError" /\ filename' = NoName /\ pc' = "ready"
               ELSE IF hits' = <<>>
               THEN outcome' = "StopIteration" /\ filename' = NoName /\ pc' = "ready"
               ELSE outcome' = "" /\ filename' = FirstHit(hits').obj /\ pc' = "q_open"
    /\ UNCHANGED <<handles, buildVars>>

GetitemBeginConsuming(q) ==
    /\ pc = "ready"
    /\ query' = q
    /\ prev' = IF outcome = "ok" THEN filename ELSE NoName
    /\ opens' = 0
    /\ result' = NoResult
    /\ IF ~Intersects(q, Bounds(index))
       THEN /\ outcome' = "IndexError"
            /\ window' = NoWindow
            /\ idxQueried' = FALSE
            /\ hits' = <<>>
            /\ filename' = NoName
            /\ pc' = "ready"
       ELSE /\ window' = Window(q)
            /\ idxQueried' = TRUE
            /\ hits' = IF CoordsValid(q) THEN Intersection(index, q) ELSE <<>>
            /\ IF ~CoordsValid(q)
               THEN outcome' = "RTreeError" /\ filename' = NoName /\ pc' = "ready"
               ELSE IF hits' = <<>>
               THEN outcome' = "StopIteration" /\ filename' = NoName /\ pc' = "ready"
               ELSE outcome' = "" /\ filename' = FirstHit(hits').obj /\ pc' = "q_open"
    /\ index' = IF Intersects(q, Bounds(index)) /\ CoordsValid(q)
                THEN SelectSeq(index, LAMBDA e : ~Overlaps(e.coords, q))
                ELSE index
    /\ UNCHANGED <<handles, listing, done, cur, timestamp, buildError, utcoffset>>

\* lines 83-92: a query that does not intersect the bounds raises IndexError;
\* otherwise the window is computed, the index is queried and the first hit
\* names the file.  intersection raises RTreeError on an inverted query and
\* next raises StopIteration when there is no hit.
GetitemBegin(q) ==
    /\ pc = "ready"
    /\ query' = q
    /\ prev' = IF outcome = "ok" THEN filename ELSE NoName
    /\ opens' = 0
    /\ result' = NoResult
    /\ IF ~Intersects(q, Bounds(index))
       THEN /\ outcome' = "IndexError"
            /\ window' = NoWindow
            /\ idxQueried' = FALSE
            /\ hits' = <<>>
            /\ filename' = NoName
            /\ pc' = "ready"
       ELSE /\ window' = Window(q)
            /\ idxQueried' = TRUE
            /\ hits' = IF CoordsValid(q) THEN Intersection(index, q) ELSE <<>>
            /\ IF ~CoordsValid(q)
               THEN outcome' = "RTreeError" /\ filename' = NoName /\ pc' = "ready"
               ELSE IF hits' = <<>>
               THEN outcome' = "StopIteration" /\ filename' = NoName /\ pc' = "ready"
               ELSE outcome' = "" /\ filename' = FirstHit(hits').obj /\ pc' = "q_open"
    /\ UNCHANGED <<handles, buildVars>>

\* line 93: rasterio.open(filename); it raises when the file has become
\* unreadable since the build
GetitemOpen ==
    /\ pc = "q_open"
    /\ \E ok \in BOOLEAN :
         IF ok
         THEN /\ handles' = handles \cup {filename}
              /\ opens' = opens + 1
              /\ pc' = "q_read"
              /\ UNCHANGED outcome
         ELSE /\ outcome' = "RasterioIOError"
              /\ pc' = "ready"
              /\ UNCHANGED <<handles, opens>>
    /\ UNCHANGED <<query, window, hits, filename, idxQueried, result, prev>>
    /\ UNCHANGED buildVars

GetitemReadLeak ==
    /\ pc = "q_read"
    /\ \E ok \in BOOLEAN :
         IF ok
         THEN result' = Sample(filename, window) /\ outcome' = "ok"
         ELSE result' = NoResult /\ outcome' = "RasterioIOError"
    /\ handles' = IF outcome' = "ok" THEN handles \ {filename} ELSE handles
    /\ pc' = "ready"
    /\ UNCHANGED <<query, window, hits, filename, idxQueried, opens, prev>>
    /\ UNCHANGED buildVars

\* lines 94-98 and the end of the with block: the window of band 1 is read
\* and returned as int32; the raster is closed, also when read raises
GetitemRead ==
    /\ pc = "q_read"
    /\ \E ok \in BOOLEAN :
         IF ok
         THEN result' = Sample(filename, window) /\ outcome' = "ok"
         ELSE result' = NoResult /\ outcome' = "RasterioIOError"
    /\ handles' = handles \ {filename}
    /\ pc' = "ready"
    /\ UNCHANGED <<query, window, hits, filename, idxQueried, opens, prev>>
    /\ UNCHANGED buildVars

Next ==
    \/ BuildNext
    \/ BuildInsert
    \/ BuildDone
    \/ \E q \in Queries : GetitemBegin(q)
    \/ GetitemOpen
    \/ GetitemRead

Spec == Init /\ [][Next]_vars

----------------------------------------------------------------------------
(* The index on its own: any sequence of insertions, then queries *)

InitIdx ==
    /\ listing = <<>>
    /\ utcoffset = 0
    /\ done = <<>>
    /\ index = <<>>
    /\ pc = "indexing"
    /\ cur = NoFile
    /\ timestamp = 0
    /\ handles = {}
    /\ buildError = ""
    /\ query = NoQuery
    /\ window = NoWindow
    /\ hits = <<>>
    /\ filename = NoName
    /\ idxQueried = FALSE
    /\ opens = 0
    /\ outcome = ""
    /\ result = NoResult
    /\ prev = NoName

\* line 69 with the coordinates and the file of any tile
InsertTile(t) ==
    /\ pc = "indexing"
    /\ Len(index) < MaxInserts
    /\ \A i \in 1..Len(index) : index[i].obj # t.obj
    /\ CoordsValid(t.coords)
    /\ index' = IndexInsert(index, 0, t.coords, t.obj)
    /\ UNCHANGED <<listing, done, pc, cur, timestamp, handles, buildError, utcoffset>>
    /\ UNCHANGED queryVars

\* the insertions end and the dataset is handed to its callers
InsertDone ==
    /\ pc = "indexing"
    /\ pc' = "ready"
    /\ UNCHANGED <<handles, buildVars, queryVars>>

NextIdx ==
    \/ \E t \in IdxTiles : InsertTile(t)
    \/ InsertDone
    \/ \E q \in QueriesIdx : GetitemBegin(q)
    \/ GetitemOpen
    \/ GetitemRead

SpecIdx == InitIdx /\ [][NextIdx]_vars

----------------------------------------------------------------------------
(* Properties *)

\* the query shares no point with the box on the x, the y or the time axis
AxisDisjoint(q, b) ==
    \/ q[2] < b[1] \/ q[1] > b[2]
    \/ q[4] < b[3] \/ q[3] > b[4]
    \/ q[6] < b[5] \/ q[5] > b[6]

\* v is the least (greatest) element of S
IsMin(v, S) == v \in S /\ \A x \in S : v <= x
IsMax(v, S) == v \in S /\ \A x \in S : v >= x

DoneFiles == {done[i] : i \in 1..Len(done)}

\* midnight UTC of the date the name of a file states
NameMidnight == [n \in GoodNames |-> FileTimestamp(n, 0)]

\* the acquisition time of a file: midnight of its date in the local zone
NameTime(n) == NameMidnight[n] - utcoffset

\* the raster of file f, acquired at time t, meets the query
FileMeets(f, t, q) ==
    /\ f.bounds[1] <= q[2] /\ f.bounds[3] >= q[1]
    /\ f.bounds[2] <= q[4] /\ f.bounds[4] >= q[3]
    /\ t <= q[6] /\ t >= q[5]

\* number of hits that carry the path
HitCount(h, path) == Cardinality({i \in 1..Len(h) : h[i].obj = path})

\* C1: a query disjoint from the dataset bounds on some axis ends with
\* IndexError, with the index not queried and no raster opened
C1_OutOfRangeRejected ==
    (query # NoQuery /\ AxisDisjoint(query, Bounds(index)))
        => /\ pc = "ready"
           /\ outcome = "IndexError"
           /\ ~idxQueried
           /\ opens = 0
           /\ handles = {}

C1_Witness ==
    /\ index # <<>>
    /\ outcome = "IndexError"
    /\ query[3] > Bounds(index)[4]
    /\ query[1] <= Bounds(index)[2] /\ query[2] >= Bounds(index)[1]
    /\ query[5] <= Bounds(index)[6] /\ query[6] >= Bounds(index)[5]

\* C2: a file with a malformed name is skipped: it never aborts the build
C2_MalformedSkipped ==
    (cur # NoFile /\ ParseError(cur.name) # "") => pc # "aborted"

\* C3: a query that intersects the dataset bounds returns pixels or fails
\* with the read failure of the raster, and with nothing else
C3_OnlyDocumentedFailures ==
    (/\ query # NoQuery
     /\ pc = "ready"
     /\ CoordsValid(query)
     /\ Intersects(query, Bounds(index)))
        => outcome \in {"ok", "RasterioIOError"}

\* C4: for every query box, every inserted file whose raster and date meet
\* the box is hit exactly once under its own path, every other inserted file
\* is not hit, and there are no other hits
C4_IntersectExact ==
    \A q \in Queries :
        LET h == Intersection(index, q)
            met == {f \in DoneFiles : FileMeets(f, NameTime(f.name), q)}
        IN  /\ \A f \in DoneFiles :
                 HitCount(h, f.name) = IF f \in met THEN 1 ELSE 0
            /\ Len(h) = Cardinality(met)

C4_Witness ==
    /\ Len(hits) = 2
    /\ hits[1].coords = hits[2].coords
    /\ hits[1].obj # hits[2].obj
    /\ hits[1].id = 0 /\ hits[2].id = 0
    /\ Len(index) = 3

QueryInA == <<10, 20, 10, 20, 1000, 1000>>
QueryInAB == <<60, 70, 60, 70, 1500, 1500>>

QueryOverAB == <<60, 70, 60, 70, 1000, 2000>>

\* the index holds exactly the tiles A and B
HoldsAB ==
    /\ pc # "indexing"
    /\ {[coords |-> index[i].coords, obj |-> index[i].obj] : i \in 1..Len(index)}
         = {TileA, TileB}

\* the last query met both A and B, and what was read was one of them
HitBoth ==
    /\ idxQueried
    /\ Len(hits) = 2
    /\ {hits[1].obj, hits[2].obj} = {TileA.obj, TileB.obj}
    /\ filename \in {TileA.obj, TileB.obj}
    /\ pc = "q_read" => handles = {filename}
    /\ outcome = "ok" => result.file = filename /\ opens = 1

\* the last query met A alone
HitA ==
    /\ idxQueried
    /\ Len(hits) = 1
    /\ hits[1].obj = TileA.obj
    /\ filename = TileA.obj

\* C5 as stated: with exactly the tiles A and B in the index, the query
\* (10,20,10,20,1000,1000) has the single hit A, and the query
\* (60,70,60,70,1500,1500) has the hits A and B, of which one is read
C5_Scenario ==
    HoldsAB => /\ query = QueryInA => HitA
               /\ query = QueryInAB => HitBoth

\* C5 amended: with exactly the tiles A and B in the index, the query
\* (10,20,10,20,1000,1000) has the single hit A; the query
\* (60,70,60,70,1500,1500) passes the bounds check and has no hit, so that no
\* file is read; the query (60,70,60,70,1000,2000) has the hits A and B, of
\* which one is read
C5_ScenarioAmended ==
    HoldsAB => /\ query = QueryInA => HitA
               /\ query = QueryInAB
                    => /\ idxQueried
                       /\ hits = <<>>
                       /\ outcome = "StopIteration"
                       /\ opens = 0
                       /\ handles = {}
               /\ query = QueryOverAB => HitBoth

C5_Witness ==
    /\ Len(index) = 2
    /\ index[1].obj = TileB.obj
    /\ index[2].obj = TileA.obj
    /\ prev = TileA.obj
    /\ query = QueryInAB
    /\ outcome = "StopIteration"

\* C6: after the build the dataset bounds are the least minx, miny and time
\* and the greatest maxx, maxy and time of the inserted files, and a query
\* is rejected exactly when it does not meet that box
C6_BoundsAreHull ==
    (pc \in {"ready", "q_open", "q_read"} /\ done # <<>>)
        => LET b == Bounds(index)
           IN  /\ IsMin(b[1], {f.bounds[1] : f \in DoneFiles})
               /\ IsMax(b[2], {f.bounds[3] : f \in DoneFiles})
               /\ IsMin(b[3], {f.bounds[2] : f \in DoneFiles})
               /\ IsMax(b[4], {f.bounds[4] : f \in DoneFiles})
               /\ IsMin(b[5], {NameTime(f.name) : f \in DoneFiles})
               /\ IsMax(b[6], {NameTime(f.name) : f \in DoneFiles})
               /\ query # NoQuery
                    => (outcome = "IndexError") = AxisDisjoint(query, b)

C6_Witness ==
    /\ pc = "ready"
    /\ Len(done) = 3
    /\ Bounds(index) = <<0, 300, 0, 150, T1, T2>>
    /\ outcome = "ok"

\* C7: the window of an accepted query is (minx, miny, maxx - minx,
\* maxy - miny) of the query, it is the window the read is made with, and
\* its width and height are not negative for a query with minx <= maxx and
\* miny <= maxy
C7_WindowFromQuery ==
    (query # NoQuery /\ outcome # "IndexError")
        => /\ window[1] = query[1]
           /\ window[2] = query[3]
           /\ window[3] = query[2] - query[1]
           /\ window[4] = query[4] - query[3]
           /\ (query[1] <= query[2] /\ query[3] <= query[4])
                => (window[3] >= 0 /\ window[4] >= 0)
           /\ outcome = "ok" => result.window = window
           /\ query = <<10, 30, 20, 40, T1, T1>> => window = <<10, 20, 20, 20>>

C7_Witness ==
    /\ Len(index) = 1
    /\ index[1].coords = <<0, 100, 0, 100, T1, T1>>
    /\ query = <<10, 30, 20, 40, T1, T1>>
    /\ outcome = "ok"
    /\ result.window = <<10, 20, 20, 20>>

\* C8: a query with a hit reads exactly one file: the file of the first
\* record, in the order of the traversal, whose box intersects the query
C8_FirstHitOnly ==
    (query # NoQuery /\ (pc \in {"q_open", "q_read"} \/ outcome = "ok"))
        => /\ \E i \in 1..Len(index) :
                /\ index[i].obj = filename
                /\ Overlaps(index[i].coords, query)
                /\ \A j \in 1..(i - 1) : ~Overlaps(index[j].coords, query)
           /\ handles \subseteq {filename}
           /\ pc = "q_read" => handles = {filename} /\ opens = 1
           /\ outcome = "ok" => result.file = filename /\ opens = 1

C8_Witness ==
    /\ Len(hits) = 3
    /\ hits[1].coords # hits[2].coords
    /\ outcome = "ok"
    /\ result.file = hits[1].obj
    /\ opens = 1

\* C9: no raster is open outside the body of a build step or a query step,
\* at most one is open at any time, a successful query has made exactly one
\* open, and a failed one has left none open
C9_ScopedOpens ==
    /\ pc \in {"scan", "ready", "aborted"} => handles = {}
    /\ Cardinality(handles) <= 1
    /\ outcome = "ok" => opens = 1
    /\ opens <= 1

C9_Witness ==
    /\ pc = "ready"
    /\ outcome = "ok"
    /\ prev = filename
    /\ opens = 1
    /\ handles = {}

\* a step taken after the build keeps the index
IndexKept ==
    pc \in {"ready", "q_open", "q_read"}
        => (/\ index' = index
            /\ Bounds(index') = Bounds(index)
            /\ query # NoQuery
                  => Intersection(index', query) = Intersection(index, query))

\* C10: once the build has completed no step changes the stored records,
\* the dataset bounds or the hits of any query box
C10_ReadOnlyAfterBuild ==
    [][IndexKept]_vars

C10_Witness ==
    /\ pc = "ready"
    /\ prev # NoName
    /\ outcome = "RasterioIOError"
    /\ index # <<>>

====
